---- MODULE Spec2Model ----
(***************************************************************************)
(* The filing agent of ai_legal_assistant: the two-node tool-calling graph *)
(* of agent_workflow.py (call_agent / should_continue / call_tools), the   *)
(* capability functions of tools.py and the POST /search handler of        *)
(* main.py, for one request (Spec) and for two concurrent requests         *)
(* (SpecConc).                                                             *)
(*                                                                         *)
(* Strings are sequences of tokens, so that a prefix ("Error:") or a       *)
(* containment test ("Error:" not in result) is computed, not assumed.     *)
(***************************************************************************)
EXTENDS Integers, Sequences, FiniteSets, TLC

VARIABLES
    search_wrapper,   \* tools.py:10-13, "None" or "configured", fixed at import
    messages,         \* AgentState.messages, the conversation
    pc,               \* node the graph runs next: "agent", "tools" or END
    steps,            \* supersteps the graph has run
    raised,           \* exception that left graph.invoke: "none", "llm", "tool", "route", "limit"
    trace,            \* nodes run so far, in order (history)
    response          \* what POST /search answered

vars == <<search_wrapper, messages, pc, steps, raised, trace, response>>

----------------------------------------------------------------------------
(* Bounds *)

\* supersteps graph.invoke runs before it raises GraphRecursionError
\* (main.py passes no recursion_limit, so the framework's default applies;
\* the model scales it down)
RecursionLimit == 4

\* tool-invocation requests the reasoning call issues within one request
MaxToolCalls == 2

----------------------------------------------------------------------------
(* Values *)

END == "__end__"
None == "None"
Absent == "<absent>"
Null == "<null>"

\* tokens -> lower case (str.lower)
Lower(tok) ==
    CASE tok = "Microsoft" -> "microsoft"
      [] tok = "Acme" -> "acme"
      [] OTHER -> tok

RECURSIVE LowerAll(_)
LowerAll(s) == IF s = <<>> THEN <<>> ELSE <<Lower(Head(s))>> \o LowerAll(Tail(s))

Contains(s, tok) == \E i \in 1..Len(s) : s[i] = tok

QMicrosoft == <<"Microsoft", "10-K">>
QAcme == <<"Acme", "10-K">>
QCompany == <<"Microsoft">>
QUrl == <<"https://www.sec.gov/x">>

\* the query of the incoming request
UserQueries == {QMicrosoft}

----------------------------------------------------------------------------
(* tools.py *)

Ret(s) == [exc |-> FALSE, out |-> s]
Raise == [exc |-> TRUE, out |-> <<>>]

\* search_wrapper.run(q): result text, result text that happens to hold the
\* word "Error:", or an exception of the backend
WrapperRun(q) ==
    { Ret(<<"results:">> \o q), Ret(<<"results:", "Error:", "page">> \o q), Raise }

general_web_search(query) ==
    IF search_wrapper = None
    THEN { Ret(<<"Error:", "SERPER_API_KEY not configured. Please set SERPER_API_KEY in your .env file.">>) }
    ELSE { IF r.exc
           THEN Ret(<<"Error:", "Search failed -", "Please check your SERPER_API_KEY configuration.">>)
           ELSE r : r \in WrapperRun(query) }

\* mutant: the missing-credential message loses its "Error:" marker
official_site_search_unmarked(query, site) ==
    IF search_wrapper = None
    THEN { Ret(<<"SERPER_API_KEY not configured. Cannot search", site>>) }
    ELSE { IF r.exc
           THEN Ret(<<"Error:", "Search failed for", site, "Please check your SERPER_API_KEY configuration.">>)
           ELSE r : r \in WrapperRun(<<"site:", site>> \o query) }

official_site_search(query, site) ==
    IF search_wrapper = None
    THEN { Ret(<<"Error:", "SERPER_API_KEY not configured. Cannot search", site>>) }
    ELSE { IF r.exc
           THEN Ret(<<"Error:", "Search failed for", site, "Please check your SERPER_API_KEY configuration.">>)
           ELSE r : r \in WrapperRun(<<"site:", site>> \o query) }

sec_urls == {"microsoft", "apple", "amazon", "google"}

\* the fallback of sec_edgar_search, lines 48-70
sec_edgar_direct(query) ==
    IF query # <<>> /\ Lower(query[1]) \in sec_urls
    THEN Ret(<<"Found SEC EDGAR filings for", Lower(query[1]), "Direct search URL:", "https://www.sec.gov/cgi-bin/browse-edgar">>)
    ELSE Ret(<<"Real SEC EDGAR search attempted for:">> \o query \o <<"Please visit https://www.sec.gov/edgar/searchedgar/companysearch for manual search.">>)

sec_edgar_search(query) ==
    LET real == IF search_wrapper # None THEN official_site_search(query, "sec.gov") ELSE {}
    IN  { r \in real : ~Contains(r.out, "Error:") }
        \cup (IF search_wrapper = None \/ \E r \in real : Contains(r.out, "Error:")
              THEN { sec_edgar_direct(query) }
              ELSE {})

sedar_plus_search(query) == official_site_search(query, "sedarplus.ca")

cvm_empresas_net_search(query) == official_site_search(query, "cvm.gov.br")

\* requests.get + BeautifulSoup: the page text, a non-HTML content type, a
\* requests.RequestException (the only exception the function catches), or
\* any other exception of the fetch or of the parse, which it lets through
read_document_from_url(url) ==
    { Ret(<<"page text">>),
      Ret(<<"Error:", "Content type is not text/html. It is", "application/pdf", "Cannot process.">>),
      Ret(<<"Error:", "Could not retrieve URL. Reason:">> \o url),
      Raise }

cik_mapping == {"microsoft", "apple", "amazon", "google", "alphabet", "tesla", "netflix", "meta", "facebook"}

real_sec_search(company_name) ==
    IF Len(company_name) = 1 /\ Lower(company_name[1]) \in cik_mapping
    THEN { Ret(<<"Real SEC search successful for">> \o company_name \o <<"Company CIK:", "Filings URL:">>),
           Ret(<<"Real SEC search attempted for">> \o company_name \o <<"Filings URL:">>),
           Ret(<<"Real SEC search failed:">>) }
    ELSE { Ret(<<"Real SEC search attempted for">> \o company_name \o <<"Please visit https://www.sec.gov/edgar/searchedgar/companysearch for manual search.">>) }

mock_responses == {"microsoft", "apple", "petrobras", "amazon", "google"}

fallback_search(query) ==
    IF \E c \in mock_responses : Contains(LowerAll(query), c)
    THEN { Ret(<<"Found filing for", (CHOOSE c \in mock_responses : Contains(LowerAll(query), c)), "Document URL:">>) }
    ELSE { Ret(<<"Mock search completed for:">> \o query \o <<"No specific filing found in mock database.">>) }

----------------------------------------------------------------------------
(* agent_workflow.py *)

\* the registered tool list, in order
tools == << "search_sec_edgar", "real_sec_search", "search_sedar_plus",
            "search_cvm_empresas_net", "read_document_from_url",
            "general_web_search", "fallback_search" >>

\* tool_func.invoke(tool_input)
Invoke(name, args) ==
    CASE name = "search_sec_edgar" -> sec_edgar_search(args)
      [] name = "real_sec_search" -> real_sec_search(args)
      [] name = "search_sedar_plus" -> sedar_plus_search(args)
      [] name = "search_cvm_empresas_net" -> cvm_empresas_net_search(args)
      [] name = "read_document_from_url" -> read_document_from_url(args)
      [] name = "general_web_search" -> general_web_search(args)
      [] name = "fallback_search" -> fallback_search(args)

\* next((t for t in self.tools if t.name == tool_name), None)
FindTool(name) == IF \E i \in 1..Len(tools) : tools[i] = name THEN name ELSE None

----------------------------------------------------------------------------
(* The text of an assistant turn: how it is written ("bare" JSON, JSON in a  *)
(* fenced code block, or prose), the kind of JSON value it holds, and for an *)
(* object the value of each key: Absent, Null (JSON null), or a string, ""   *)
(* included.                                                                 *)

RequiredFields == { "contract_name", "company_name", "description", "filing_date",
                    "source_of_information", "country", "language", "document_url" }
OptionalFields == { "applicable_law", "relevant_clause" }
Synonyms == { "filing_type", "summary" }
Keys == RequiredFields \cup OptionalFields \cup Synonyms

NoKeys == [k \in Keys |-> Absent]

Payload(fmt, kind, f) == [fmt |-> fmt, kind |-> kind, f |-> f]

\* the content of an assistant turn that only requests tools
NoContent == Payload("prose", "text", NoKeys)

HumanMessage(q) == [type |-> "human", content |-> q, tool_calls |-> <<>>, tool_call_id |-> 0]
AIMessage(c, calls) == [type |-> "ai", content |-> c, tool_calls |-> calls, tool_call_id |-> 0]
ToolMessage(c, id) == [type |-> "tool", content |-> c, tool_calls |-> <<>>, tool_call_id |-> id]

Last(s) == s[Len(s)]

\* mutant: the two outcomes of the tool_calls test are swapped
should_continue_swapped(msgs) ==
    IF Last(msgs).type = "tool" THEN "agent"
    ELSE IF Last(msgs).tool_calls = <<>> THEN "tools"
    ELSE END

\* mutant: the first test asks for the wrong message class
should_continue_wrong_class(msgs) ==
    IF Last(msgs).type = "ai" THEN "agent"
    ELSE IF Last(msgs).tool_calls = <<>> THEN END
    ELSE "tools"

should_continue(msgs) ==
    IF Last(msgs).type = "tool" THEN "agent"
    ELSE IF Last(msgs).tool_calls = <<>> THEN END
    ELSE "tools"

\* the tool-invocation requests the reasoning call may emit
ArgsOf(name) ==
    CASE name = "search_sec_edgar" -> {QMicrosoft, QAcme}
      [] name = "real_sec_search" -> {QCompany}
      [] name = "read_document_from_url" -> {QUrl}
      [] name = "fallback_search" -> {QMicrosoft}
      [] OTHER -> {QAcme}

ToolNames == { tools[i] : i \in 1..Len(tools) } \cup { "lookup_filing" }

Requests == UNION { { [name |-> n, args |-> a] : a \in ArgsOf(n) } : n \in ToolNames }

RECURSIVE NumRequests(_)
NumRequests(msgs) ==
    IF msgs = <<>> THEN 0 ELSE Len(Head(msgs).tool_calls) + NumRequests(Tail(msgs))

\* a batch of k requests; the framework gives each a fresh id
Batches(msgs) ==
    UNION { { [i \in 1..k |-> [id |-> 10 * Len(msgs) + i, name |-> b[i].name, args |-> b[i].args]] :
                b \in [1..k -> Requests] } : k \in 1..(MaxToolCalls - NumRequests(msgs)) }

\* tool_outputs.append(ToolMessage(content=str(output), tool_call_id=call['id']))
ToolOutput(call, output) == ToolMessage(output, call.id)

\* the for loop of call_tools over the requests that remain: the list of
\* tool messages it builds, or the exception a tool let through
RECURSIVE Dispatch(_)
Dispatch(tool_calls) ==
    IF tool_calls = <<>> THEN { [exc |-> FALSE, outs |-> <<>>] }
    ELSE LET call == Head(tool_calls)
             tool_func == FindTool(call.name)
         IN  IF tool_func = None THEN Dispatch(Tail(tool_calls))
             ELSE UNION { IF o.exc
                          THEN { [exc |-> TRUE, outs |-> <<>>] }
                          ELSE { [exc |-> r.exc,
                                  outs |-> IF r.exc THEN <<>> ELSE <<ToolOutput(call, o.out)>> \o r.outs] :
                                  r \in Dispatch(Tail(tool_calls)) } :
                          o \in Invoke(tool_func, call.args) }

RECURSIVE Reverse(_)
Reverse(s) == IF s = <<>> THEN <<>> ELSE Append(Reverse(Tail(s)), Head(s))

\* mutant: the batch's results are handed back last-first
call_tools_reversed(msgs) ==
    { [exc |-> r.exc, outs |-> Reverse(r.outs)] : r \in Dispatch(Last(msgs).tool_calls) }

call_tools(msgs) == Dispatch(Last(msgs).tool_calls)

----------------------------------------------------------------------------
(* models.py, main.py *)

\* a fully conforming final answer
Conforming ==
    [k \in Keys |->
        CASE k = "contract_name" -> "Form 10-K"
          [] k = "company_name" -> "Microsoft Corporation"
          [] k = "description" -> "Annual report"
          [] k = "filing_date" -> "2024-07-25"
          [] k = "source_of_information" -> "SEC EDGAR"
          [] k = "country" -> "United States"
          [] k = "language" -> "English"
          [] k = "applicable_law" -> "Securities Exchange Act of 1934"
          [] k = "relevant_clause" -> "Item 1A. Risk Factors"
          [] k = "document_url" -> "https://www.sec.gov/Archives/msft.htm"
          [] OTHER -> Absent]

\* the same answer under the names the prompt warns against
Renamed ==
    [Conforming EXCEPT !["contract_name"] = Absent, !["filing_type"] = "10-K",
                       !["description"] = Absent, !["summary"] = "Yearly summary"]

\* the final answers the reasoning call may give
FinalAnswers ==
    { Payload("bare", "object", Conforming),
      Payload("fenced", "object", Conforming),
      Payload("bare", "object", [Conforming EXCEPT !["applicable_law"] = Absent, !["relevant_clause"] = Absent]),
      Payload("bare", "object", [Conforming EXCEPT !["contract_name"] = ""]),
      Payload("bare", "object", [Conforming EXCEPT !["filing_type"] = "10-K", !["summary"] = "Yearly summary"]),
      Payload("bare", "object", Renamed),
      Payload("fenced", "object", Renamed),
      Payload("bare", "object", [Renamed EXCEPT !["document_url"] = "https://www.cvm.gov.br/doc"]),
      Payload("bare", "object", [Renamed EXCEPT !["document_url"] = Absent, !["filing_type"] = Absent]),
      Payload("bare", "object", [Renamed EXCEPT !["filing_date"] = Null]),
      Payload("bare", "object", [Renamed EXCEPT !["document_url"] = Null]),
      Payload("bare", "array", NoKeys),
      Payload("prose", "text", NoKeys) }

\* CompanyFiling(**values): every str field must be given and be a string;
\* the two Optional fields default to None and "N/A"
CompanyFiling(values) ==
    IF \A k \in RequiredFields : values[k] \notin {Absent, Null}
    THEN << [k \in RequiredFields \cup OptionalFields |->
               IF values[k] # Absent THEN values[k]
               ELSE IF k = "relevant_clause" THEN "N/A" ELSE Null] >>
    ELSE <<>>

\* parser.parse(content): the JSON object of the text, bare or fenced,
\* validated as a CompanyFiling; <<>> when it raises
parser_parse(content) ==
    IF content.fmt \in {"bare", "fenced"} /\ content.kind = "object"
    THEN CompanyFiling(content.f)
    ELSE <<>>

\* raw_json.get(key, default)
Get(raw_json, key, default) == IF raw_json[key] = Absent THEN default ELSE raw_json[key]

\* "sec.gov" in url
InSecGov(url) == url \in { "https://www.sec.gov/Archives/msft.htm" }

\* lines 96-116: json.loads and the record built from the raw JSON; <<>>
\* when any of it raises
manual_parse(content) ==
    IF content.fmt = "bare" /\ content.kind = "object" /\ Get(content.f, "document_url", "") # Null
    THEN LET raw_json == content.f
             url == Get(raw_json, "document_url", "")
         IN  CompanyFiling(
               [k \in RequiredFields \cup OptionalFields |->
                  CASE k = "contract_name" -> Get(raw_json, "filing_type", Get(raw_json, "contract_name", "Unknown"))
                    [] k = "company_name" -> Get(raw_json, "company_name", "Unknown")
                    [] k = "description" -> Get(raw_json, "summary", Get(raw_json, "description", "No description available"))
                    [] k = "filing_date" -> Get(raw_json, "filing_date", "Unknown")
                    [] k = "source_of_information" -> IF InSecGov(url) THEN "SEC EDGAR" ELSE "Unknown"
                    [] k = "country" -> IF InSecGov(url) THEN "United States" ELSE "Unknown"
                    [] k = "language" -> "English"
                    [] k = "applicable_law" -> "Securities Exchange Act of 1934"
                    [] k = "relevant_clause" -> "N/A"
                    [] k = "document_url" -> url])
    ELSE <<>>

NoResponse == [kind |-> "none", success |-> FALSE, data |-> <<>>, error |-> <<>>]

\* FilingResponse(success=..., data=..., error=...)
FilingResponse(success, data, error) ==
    [kind |-> "envelope", success |-> success, data |-> data, error |-> error]

\* raise HTTPException(status_code=500, ...)
HTTPException500 == [kind |-> "http500", success |-> FALSE, data |-> <<>>, error |-> <<>>]

\* the error text of the failure envelope, with the raw answer in it
ParseError(content) == << [msg |-> "Failed to parse structured output", raw |-> content] >>

\* mutant: the record is built from the raw JSON first, parsed only after
Envelope_manual_first(final_response_message) ==
    LET content == final_response_message.content
        parsed_output == parser_parse(content)
        manual_parsed == manual_parse(content)
    IN  IF manual_parsed # <<>> THEN FilingResponse(TRUE, manual_parsed, <<>>)
        ELSE IF parsed_output # <<>> THEN FilingResponse(TRUE, parsed_output, <<>>)
        ELSE FilingResponse(FALSE, <<>>, ParseError(content))

\* mutant: the failure envelope is built without its error text
Envelope_no_error(final_response_message) ==
    LET content == final_response_message.content
        parsed_output == parser_parse(content)
        manual_parsed == manual_parse(content)
    IN  IF parsed_output # <<>> THEN FilingResponse(TRUE, parsed_output, <<>>)
        ELSE IF manual_parsed # <<>> THEN FilingResponse(TRUE, manual_parsed, <<>>)
        ELSE FilingResponse(FALSE, <<>>, <<>>)

\* lines 79-131: the envelope for the final message of the conversation
Envelope(final_response_message) ==
    LET content == final_response_message.content
        parsed_output == parser_parse(content)
        manual_parsed == manual_parse(content)
    IN  IF parsed_output # <<>> THEN FilingResponse(TRUE, parsed_output, <<>>)
        ELSE IF manual_parsed # <<>> THEN FilingResponse(TRUE, manual_parsed, <<>>)
        ELSE FilingResponse(FALSE, <<>>, ParseError(content))

----------------------------------------------------------------------------
(* The state machine *)

\* add_conditional_edges("agent", should_continue, {"tools": "tools", END: END})
EdgeMap == {"tools", END}

\* mutant: the edge out of "tools" leads back to "tools"
ToolsEdge_self == "tools"

\* add_edge("tools", "agent")
ToolsEdge == "agent"

\* what self.agent.invoke(state) may return: an assistant turn with
\* requests, or one with a final answer and none
AgentResponses(msgs) ==
    { AIMessage(NoContent, b) : b \in Batches(msgs) }
    \cup { AIMessage(c, <<>>) : c \in FinalAnswers }

\* import of tools.py, then search_filing up to graph.invoke (lines 63-76)
Init ==
    /\ search_wrapper \in {None, "configured"}
    /\ \E q \in UserQueries : messages = <<HumanMessage(q)>>
    /\ pc = "agent"
    /\ steps = 0
    /\ raised = "none"
    /\ trace = <<>>
    /\ response = NoResponse

Running == raised = "none" /\ pc \in {"agent", "tools"} /\ response.kind = "none"

\* mutant: the turn returned replaces the conversation (no operator.add)
AgentReturns_overwrite ==
    /\ Running /\ pc = "agent" /\ steps < RecursionLimit
    /\ \E r \in AgentResponses(messages) :
         /\ messages' = <<r>>
         /\ IF should_continue(messages') \in EdgeMap
            THEN pc' = should_continue(messages') /\ raised' = raised
            ELSE pc' = pc /\ raised' = "route"
    /\ steps' = steps + 1
    /\ trace' = Append(trace, "agent")
    /\ UNCHANGED <<search_wrapper, response>>

\* node "agent": call_agent returns the reasoning call's turn, which the
\* graph appends, and should_continue picks the next node
AgentReturns ==
    /\ Running /\ pc = "agent" /\ steps < RecursionLimit
    /\ \E r \in AgentResponses(messages) :
         /\ messages' = messages \o <<r>>
         /\ IF should_continue(messages') \in EdgeMap
            THEN pc' = should_continue(messages') /\ raised' = raised
            ELSE pc' = pc /\ raised' = "route"
    /\ steps' = steps + 1
    /\ trace' = Append(trace, "agent")
    /\ UNCHANGED <<search_wrapper, response>>

\* node "agent": the reasoning call raises, and so do call_agent and graph.invoke
AgentRaises ==
    /\ Running /\ pc = "agent" /\ steps < RecursionLimit
    /\ raised' = "llm"
    /\ steps' = steps + 1
    /\ trace' = Append(trace, "agent")
    /\ UNCHANGED <<search_wrapper, messages, pc, response>>

\* node "tools": call_tools; the edge ("tools", "agent") follows when it returns
CallTools ==
    /\ Running /\ pc = "tools" /\ steps < RecursionLimit
    /\ \E res \in call_tools(messages) :
         IF res.exc
         THEN raised' = "tool" /\ UNCHANGED <<messages, pc>>
         ELSE messages' = messages \o res.outs /\ pc' = ToolsEdge /\ raised' = raised
    /\ steps' = steps + 1
    /\ trace' = Append(trace, "tools")
    /\ UNCHANGED <<search_wrapper, response>>

\* the graph has a node to run and no superstep left: GraphRecursionError
OutOfSteps ==
    /\ Running /\ steps >= RecursionLimit
    /\ raised' = "limit"
    /\ UNCHANGED <<search_wrapper, messages, pc, steps, trace, response>>

\* mutant: the outer except answers with a failure envelope, not a 500
Respond_envelope_on_raise ==
    /\ response.kind = "none"
    /\ raised # "none" \/ pc = END
    /\ response' = IF raised # "none" THEN FilingResponse(FALSE, <<>>, ParseError(NoContent))
                   ELSE Envelope(Last(messages))
    /\ UNCHANGED <<search_wrapper, messages, pc, steps, raised, trace>>

\* search_filing after graph.invoke: lines 78-131 when it returned, lines
\* 133-138 when it raised
Respond ==
    /\ response.kind = "none"
    /\ raised # "none" \/ pc = END
    /\ response' = IF raised # "none" THEN HTTPException500 ELSE Envelope(Last(messages))
    /\ UNCHANGED <<search_wrapper, messages, pc, steps, raised, trace>>

Next == AgentReturns \/ AgentRaises \/ CallTools \/ OutOfSteps \/ Respond

Spec == Init /\ [][Next]_vars

----------------------------------------------------------------------------
(* Reading the conversation *)

\* index of the latest assistant turn
LastAI(msgs) == CHOOSE i \in 1..Len(msgs) :
                  /\ msgs[i].type = "ai"
                  /\ \A j \in (i+1)..Len(msgs) : msgs[j].type # "ai"

HasAI(msgs) == \E i \in 1..Len(msgs) : msgs[i].type = "ai"

\* the dispatch step has just returned and the next decision step has not run
DispatchDone == trace # <<>> /\ Last(trace) = "tools" /\ pc = "agent"

\* the requests of the batch just dispatched, and the turns appended for it
BatchRequests == messages[LastAI(messages)].tool_calls
BatchResults == SubSeq(messages, LastAI(messages) + 1, Len(messages))

\* the name of the tool a tool-result turn answers
ToolOf(m) ==
    LET hit == { c \in UNION { { messages[i].tool_calls[k] : k \in 1..Len(messages[i].tool_calls) } :
                               i \in 1..Len(messages) } : c.id = m.tool_call_id }
    IN  (CHOOSE c \in hit : TRUE).name

ToolTurns == { i \in 1..Len(messages) : messages[i].type = "tool" }

----------------------------------------------------------------------------
(* Claims *)

\* C1: after every dispatch step, the tool-result turns appended for the
\* batch are exactly as many as the requests of the assistant turn, and each
\* carries the id of one of those requests.
C1_ResultPerRequest ==
    DispatchDone =>
        /\ Len(BatchResults) = Len(BatchRequests)
        /\ \A j \in 1..Len(BatchResults) :
              /\ BatchResults[j].type = "tool"
              /\ \E k \in 1..Len(BatchRequests) :
                    BatchRequests[k].id = BatchResults[j].tool_call_id

\* C2: after every dispatch step, a request naming a tool that is not
\* registered has a tool-result turn carrying its id.
C2_UnknownToolAnswered ==
    DispatchDone =>
        \A k \in 1..Len(BatchRequests) :
            FindTool(BatchRequests[k].name) = None =>
                \E j \in 1..Len(BatchResults) :
                    /\ BatchResults[j].type = "tool"
                    /\ BatchResults[j].tool_call_id = BatchRequests[k].id

\* C3: no dispatch step is followed by a dispatch step and no decision step
\* by a decision step; the node a returned dispatch step hands over to is
\* "agent", and the graph is at END only right after a decision step.
C3_DispatchThenDecide ==
    /\ \A i \in 1..(Len(trace) - 1) : trace[i] # trace[i + 1]
    /\ (trace # <<>> /\ Last(trace) = "tools" /\ raised # "tool") => pc = "agent"
    /\ pc = END => (trace # <<>> /\ Last(trace) = "agent")

C3_Witness == \E i \in 1..(Len(trace) - 1) : trace[i] = "tools" /\ trace[i + 1] = "agent"

\* C4: after a decision step that produced a turn, the next node is "tools"
\* iff the turn has requests and END iff it has none; a turn without
\* requests is the last of the conversation and leaves the graph at END.
C4_RouteByRequests ==
    /\ (trace # <<>> /\ Last(trace) = "agent" /\ raised # "llm") =>
          /\ Last(messages).type = "ai"
          /\ (pc = "tools") <=> (Last(messages).tool_calls # <<>>)
          /\ (pc = END) <=> (Last(messages).tool_calls = <<>>)
    /\ \A i \in 1..Len(messages) :
          (messages[i].type = "ai" /\ messages[i].tool_calls = <<>>) =>
              (i = Len(messages) /\ pc = END /\ Last(trace) = "agent")
    /\ pc = END => (Last(messages).type = "ai" /\ Last(messages).tool_calls = <<>>)

C4_Witness == pc = END /\ Len(trace) = 3

\* C5: the results of a batch come in the order of its requests: of two
\* results, the earlier answers the earlier request.
C5_ResultsInRequestOrder ==
    DispatchDone =>
        \A j, k \in 1..Len(BatchResults) :
            j < k =>
                \E p, q \in 1..Len(BatchRequests) :
                    /\ p < q
                    /\ BatchRequests[p].id = BatchResults[j].tool_call_id
                    /\ BatchRequests[q].id = BatchResults[k].tool_call_id

C5_Witness == DispatchDone /\ Len(BatchResults) = 2

\* C6: a request whose every decision step asked for tools until the
\* iteration bound was reached is answered with a failure envelope.
C6_BoundGivesFailureEnvelope ==
    (raised = "limit" /\ response.kind # "none") =>
        (response.kind = "envelope" /\ ~response.success /\ response.error # <<>>)

\* C7: no failure of a tool leaves the dispatch step as an exception, and a
\* request that the loop itself ends is at END.
C7_ToolFailuresAreResults ==
    /\ raised # "tool"
    /\ (response.kind # "none" /\ raised \in {"none", "tool"}) => pc = END

C9_WellFormedEnvelope ==
    /\ (response.kind # "none" /\ raised = "none") => response.kind = "envelope"
    /\ response.kind = "envelope" =>
          /\ response.success => (Len(response.data) = 1 /\ response.error = <<>>)
          /\ ~response.success =>
                /\ response.data = <<>>
                /\ Len(response.error) = 1
                /\ response.error[1].raw = Last(messages).content
          /\ Last(messages).content.kind # "object" => ~response.success

C9_Witness ==
    /\ response.kind = "envelope" /\ ~response.success
    /\ \E i \in ToolTurns : Head(messages[i].content) = "Error:"
    /\ \E k \in 1..Len(messages[2].tool_calls) : FindTool(messages[2].tool_calls[k].name) = None

\* C10: once the reasoning call has failed, no node runs and no turn is
\* appended, and the only answer the request gets is the 500 response.
C10_ReasoningFailureIsFinal ==
    [][ raised = "llm" =>
          /\ raised' = "llm" /\ messages' = messages /\ trace' = trace
          /\ steps' = steps /\ pc' = pc
          /\ response'.kind \in {"none", "http500"} ]_vars

C10_Witness == raised = "llm" /\ response.kind = "http500" /\ Len(trace) = 3

\* C11: the record of a success envelope has no empty string in a required
\* field.
C11_NoEmptyRequiredField ==
    (response.kind = "envelope" /\ response.success) =>
        \A k \in RequiredFields : response.data[1][k] # ""

\* the final answer of a request that was answered with an envelope
FinalAnswer == Last(messages).content

\* the answer is a JSON object, bare or fenced, that gives every required
\* field a string
ConformingAnswer(c) ==
    /\ c.fmt \in {"bare", "fenced"} /\ c.kind = "object"
    /\ \A k \in RequiredFields : c.f[k] \notin {Absent, Null}

\* C12: an answer that conforms is returned as it is (strategy (a) comes
\* first, so its own contract_name and description stand even when it also
\* holds filing_type and summary); an answer that does not conform and is
\* accepted has contract_name from filing_type when it gives filing_type,
\* and description from summary when it gives summary; failure is reported
\* only for an answer that does not conform and that is not a bare JSON
\* object or holds a null.
C12_ParseThenReconcile ==
    response.kind = "envelope" =>
        /\ ConformingAnswer(FinalAnswer) =>
              /\ response.success
              /\ \A k \in RequiredFields : response.data[1][k] = FinalAnswer.f[k]
        /\ (~ConformingAnswer(FinalAnswer) /\ response.success) =>
              /\ FinalAnswer.f["filing_type"] # Absent =>
                    response.data[1]["contract_name"] = FinalAnswer.f["filing_type"]
              /\ FinalAnswer.f["summary"] # Absent =>
                    response.data[1]["description"] = FinalAnswer.f["summary"]
        /\ ~response.success =>
              /\ ~ConformingAnswer(FinalAnswer)
              /\ \/ FinalAnswer.fmt # "bare"
                 \/ FinalAnswer.kind # "object"
                 \/ \E k \in Keys : FinalAnswer.f[k] = Null

C12_Witness ==
    /\ response.kind = "envelope" /\ response.success
    /\ FinalAnswer.f["contract_name"] = Absent
    /\ response.data[1]["contract_name"] = "10-K"
    /\ response.data[1]["description"] = "Yearly summary"

\* two turns are the same turn
SameTurn(a, b) == a.type = b.type /\ a = b

\* conversation p is the beginning of conversation s
IsPrefix(p, s) ==
    /\ Len(p) <= Len(s)
    /\ \A i \in 1..Len(p) : SameTurn(p[i], s[i])

\* C14: the conversation starts as one user turn, and every step leaves the
\* conversation it found as the beginning of the one it leaves.
C14_AppendOnly ==
    /\ Len(messages) = 1 /\ messages[1].type = "human"
    /\ [][IsPrefix(messages, messages')]_vars

C14_Witness ==
    /\ Len(messages) = 4
    /\ messages[1].type = "human" /\ messages[2].type = "ai"
    /\ messages[3].type = "tool" /\ messages[4].type = "ai"

\* C15: should_continue never returns "agent": when it is evaluated the last
\* message is the assistant turn call_agent just returned, also after a
\* dispatch step that appended nothing.
C15_AgentBranchUnreachable ==
    /\ raised # "route"
    /\ (trace # <<>> /\ Last(trace) = "agent" /\ raised # "llm") =>
          /\ Last(messages).type = "ai"
          /\ should_continue(messages) # "agent"

C15_Witness ==
    /\ Len(trace) = 3 /\ Last(trace) = "agent" /\ raised = "none"
    /\ Len(messages) = 3
    /\ messages[2].type = "ai" /\ messages[3].type = "ai"

----------------------------------------------------------------------------
(* Concurrent requests.  In SpecConc every variable but search_wrapper is  *)
(* kept per request: pc, steps, raised, trace and response are functions   *)
(* of the request, and messages is what the checkpointers hold, one        *)
(* conversation per (checkpointer, thread_id).  trace[r] records, for each *)
(* step of request r, the node and the turns it appended.                  *)

ReqIds == {1, 2}

\* request.query
QueryOf(r) == IF r = 1 THEN QMicrosoft ELSE QAcme

\* memory = MemorySaver(): a new checkpointer for every graph created
Saver(r) == r

\* thread_id = str(uuid.uuid4())
ThreadId(r) == r

\* mutant: one module-level graph and one fixed thread_id for all requests
CheckpointKey_shared(r) == <<0, 0>>

\* where the graph of request r keeps its state
CheckpointKey(r) == <<Saver(r), ThreadId(r)>>

\* the conversation the graph of request r loads and saves
Conv(r) == messages[CheckpointKey(r)]

\* the reasoning call's answers, narrowed to single requests of two tool
\* names and to two final answers
ConcResponses(msgs) ==
    { m \in AgentResponses(msgs) :
        \/ /\ Len(m.tool_calls) = 1
           /\ m.tool_calls[1].name \in {"general_web_search", "lookup_filing"}
        \/ /\ m.tool_calls = <<>>
           /\ m.content \in { Payload("bare", "object", Conforming), Payload("prose", "text", NoKeys) } }

Step(node, appended) == [node |-> node, appended |-> appended]

InitConc ==
    /\ search_wrapper \in {None, "configured"}
    /\ messages = [k \in { CheckpointKey(r) : r \in ReqIds } |-> <<>>]
    /\ pc = [r \in ReqIds |-> "start"]
    /\ steps = [r \in ReqIds |-> 0]
    /\ raised = [r \in ReqIds |-> "none"]
    /\ trace = [r \in ReqIds |-> <<>>]
    /\ response = [r \in ReqIds |-> NoResponse]

RunningConc(r) == raised[r] = "none" /\ pc[r] \in {"agent", "tools"} /\ response[r].kind = "none"

\* search_filing, lines 63-76: graph.invoke adds the query to the state of
\* its thread
InvokeGraph(r) ==
    /\ pc[r] = "start"
    /\ messages' = [messages EXCEPT ![CheckpointKey(r)] = @ \o <<HumanMessage(QueryOf(r))>>]
    /\ pc' = [pc EXCEPT ![r] = "agent"]
    /\ trace' = [trace EXCEPT ![r] = Append(@, Step("input", <<HumanMessage(QueryOf(r))>>))]
    /\ UNCHANGED <<search_wrapper, steps, raised, response>>

AgentReturnsConc(r) ==
    /\ RunningConc(r) /\ pc[r] = "agent" /\ steps[r] < RecursionLimit
    /\ \E m \in ConcResponses(Conv(r)) :
         /\ messages' = [messages EXCEPT ![CheckpointKey(r)] = @ \o <<m>>]
         /\ trace' = [trace EXCEPT ![r] = Append(@, Step("agent", <<m>>))]
         /\ IF should_continue(Conv(r) \o <<m>>) \in EdgeMap
            THEN pc' = [pc EXCEPT ![r] = should_continue(Conv(r) \o <<m>>)] /\ raised' = raised
            ELSE pc' = pc /\ raised' = [raised EXCEPT ![r] = "route"]
    /\ steps' = [steps EXCEPT ![r] = @ + 1]
    /\ UNCHANGED <<search_wrapper, response>>

AgentRaisesConc(r) ==
    /\ RunningConc(r) /\ pc[r] = "agent" /\ steps[r] < RecursionLimit
    /\ raised' = [raised EXCEPT ![r] = "llm"]
    /\ steps' = [steps EXCEPT ![r] = @ + 1]
    /\ trace' = [trace EXCEPT ![r] = Append(@, Step("agent", <<>>))]
    /\ UNCHANGED <<search_wrapper, messages, pc, response>>

CallToolsConc(r) ==
    /\ RunningConc(r) /\ pc[r] = "tools" /\ steps[r] < RecursionLimit
    /\ \E res \in call_tools(Conv(r)) :
         IF res.exc
         THEN /\ raised' = [raised EXCEPT ![r] = "tool"]
              /\ trace' = [trace EXCEPT ![r] = Append(@, Step("tools", <<>>))]
              /\ UNCHANGED <<messages, pc>>
         ELSE /\ messages' = [messages EXCEPT ![CheckpointKey(r)] = @ \o res.outs]
              /\ trace' = [trace EXCEPT ![r] = Append(@, Step("tools", res.outs))]
              /\ pc' = [pc EXCEPT ![r] = ToolsEdge]
              /\ raised' = raised
    /\ steps' = [steps EXCEPT ![r] = @ + 1]
    /\ UNCHANGED <<search_wrapper, response>>

OutOfStepsConc(r) ==
    /\ RunningConc(r) /\ steps[r] >= RecursionLimit
    /\ raised' = [raised EXCEPT ![r] = "limit"]
    /\ UNCHANGED <<search_wrapper, messages, pc, steps, trace, response>>

RespondConc(r) ==
    /\ response[r].kind = "none"
    /\ raised[r] # "none" \/ pc[r] = END
    /\ response' = [response EXCEPT ![r] =
                      IF raised[r] # "none" THEN HTTPException500 ELSE Envelope(Last(Conv(r)))]
    /\ UNCHANGED <<search_wrapper, messages, pc, steps, raised, trace>>

NextConc ==
    \E r \in ReqIds :
        \/ InvokeGraph(r)
        \/ AgentReturnsConc(r)
        \/ AgentRaisesConc(r)
        \/ CallToolsConc(r)
        \/ OutOfStepsConc(r)
        \/ RespondConc(r)

SpecConc == InitConc /\ [][NextConc]_vars

\* the turns the steps of one request appended, in order
RECURSIVE Appended(_)
Appended(t) == IF t = <<>> THEN <<>> ELSE Head(t).appended \o Appended(Tail(t))

SameConversation(a, b) == Len(a) = Len(b) /\ IsPrefix(a, b)

\* C13: requests keep their conversations apart: the conversation of each
\* request holds the turns its own steps appended and no others, starting
\* with its own query, and the answer of a request whose graph returned is
\* the envelope of the last of its own turns.
C13_RequestsAreIsolated ==
    \A r \in ReqIds :
        /\ SameConversation(Conv(r), Appended(trace[r]))
        /\ pc[r] # "start" => SameTurn(Conv(r)[1], HumanMessage(QueryOf(r)))
        /\ response[r].kind = "envelope" =>
              response[r] = Envelope(Last(Appended(trace[r])))

C13_Witness ==
    /\ \A r \in ReqIds : response[r].kind = "envelope" /\ Len(Conv(r)) = 4
    /\ response[1].success /\ ~response[2].success

====
